---- MODULE Spec2Model ----
(***************************************************************************)
(* A model of scrape_checkio.py: the export run of the __main__ block      *)
(* (destination folder, login, mission listing, one folder per section,    *)
(* one file per mission, error report), with get_missions, get_solution,   *)
(* create_and_switch_to_dir, write_solution_to_file and download_section   *)
(* translated from their code.  The browser, the clock and the file        *)
(* system are the environment: what they return is chosen with \E.         *)
(***************************************************************************)
EXTENDS Integers, Sequences, FiniteSets, TLC

VARIABLES
    pc,            \* position of the run in __main__ and the functions it calls
    exitStatus,    \* "running", "zero" (fell off the end), "nonzero" (sys.exit(msg))
    cwd,           \* os.getcwd(), a path below the destination root (root = << >>)
    dirs,          \* folders created below the destination root
    files,         \* function: file path -> text of the file
    page,          \* the sections the listing page rendered (as read by get_missions)
    parseFailed,   \* get_missions caught NoSuchElementException
    missions,      \* the dict get_missions returned, in insertion order
    errors,        \* the errors list of __main__
    si,            \* index of the (section_name, mission_list) item of missions.items()
    mi,            \* index of the mission in download_section's loop
    original_dir,  \* download_section's original_dir
    attempts,      \* get_solution's attempts
    reads,         \* what each find_elements_by_class_name('ace_line') read did, in order
    slept,         \* seconds get_solution has spent in time.sleep
    downloaded,    \* write_solution_to_file's downloaded
    lastCall,      \* what the last write_solution_to_file call saw and did
    folderFailed,  \* the sections for which create_and_switch_to_dir raised
    called,        \* the (section, index) pairs write_solution_to_file was called for
    returned       \* the calls of write_solution_to_file that returned without raising

vars == <<pc, exitStatus, cwd, dirs, files, page, parseFailed, missions, errors,
          si, mi, original_dir, attempts, reads, slept, downloaded, lastCall,
          folderFailed, called, returned>>

-----------------------------------------------------------------------------
(* Program constants *)

PAGE_RETRIES == 3
RETRY_DELAY_SECS == 5

(* Bounds of the model *)

\* a listing page holds at most this many elements (sections plus missions)
MaxElems == 4

-----------------------------------------------------------------------------
(* Values *)

\* Python's None, and a list of lines, as values of one shape
None == [isNone |-> TRUE, lines |-> << >>]
List(l) == [isNone |-> FALSE, lines |-> l]

\* a read of the line elements: StaleElementReferenceException, or the lines' text
Stale == [stale |-> TRUE, lines |-> << >>]
Lines(l) == [stale |-> FALSE, lines |-> l]

NoCall == [called |-> FALSE]
NL == "\n"

\* A string is a sequence of chunks of characters; no chunk holds a line break.
\* Section headers: "Home", "O'Reilly" and the empty header.
Headers == { <<"Home">>, <<"O", "'", "Reilly">>, << >> }

\* the chunks for which str.isalnum() holds
Alnum == {"Home", "O", "Reilly"}

MISSION_URL_PREFIX == "https://checkio.org/mission/"

\* the progress blocks a section can hold: the img title and the a href
Tasks == { [title |-> "Add",     href |-> <<MISSION_URL_PREFIX, "add", "/">>],
           [title |-> "Mystery", href |-> <<MISSION_URL_PREFIX, "myst", "/">>] }

\* the line lists a read of the editor can give: ["a=1", "b=2", ""] (the last
\* line blank) and [] (no line element rendered yet)
LineLists == { << <<"a=1">>, <<"b=2">>, << >> >>, << >> }

\* instants datetime.now() can return
Instants == { [second |-> "Mon Nov  2 12:00:00 2026", micro |-> "200000"],
              [second |-> "Mon Nov  2 12:00:00 2026", micro |-> "800000"],
              [second |-> "Mon Nov  2 12:00:01 2026", micro |-> "300000"] }

\* the sections that take up exactly n elements: a header and n - 1 missions
SectionsOfSize(n) == [header : Headers, tasks : [1..(n - 1) -> Tasks]]

\* the pages of at most n elements, built section by section
RECURSIVE PagesUpTo(_)
PagesUpTo(n) ==
    {<< >>} \cup UNION { { <<s>> \o p : s \in SectionsOfSize(k), p \in PagesUpTo(n - k) } :
                         k \in 1..n }

Pages == PagesUpTo(MaxElems)

-----------------------------------------------------------------------------
(* get_missions *)

\* regex.match(href).group('mission_name')
MissionName(href) == href[2]

Mission(task) == [title |-> task.title, url_name |-> MissionName(task.href)]

TaskList(section) == [i \in DOMAIN section.tasks |-> Mission(section.tasks[i])]

\* section_list[title] = task_list on an insertion-ordered dict
DictSet(d, k, v) ==
    IF \E i \in DOMAIN d : d[i].name = k
    THEN [i \in DOMAIN d |-> IF d[i].name = k THEN [name |-> k, tasks |-> v] ELSE d[i]]
    ELSE Append(d, [name |-> k, tasks |-> v])

RECURSIVE SectionList(_, _)
SectionList(p, d) ==
    IF p = << >> THEN d
    ELSE SectionList(Tail(p), DictSet(d, Head(p).header, TaskList(Head(p))))

\* the value get_missions returns
GetMissionsResult(p, failed) == IF failed THEN << >> ELSE SectionList(p, << >>)

-----------------------------------------------------------------------------
(* get_solution *)

\* while attempts <= PAGE_RETRIES
LoopCond_lt(a) == a < PAGE_RETRIES
LoopCond(a) == a <= PAGE_RETRIES

\* where control goes after a read: return on success, sleep and loop on stale
AfterRead_keepreading(r) == "fetch"
AfterRead(r) == IF r.stale THEN "fetch" ELSE "write"

-----------------------------------------------------------------------------
(* create_and_switch_to_dir, download_section *)

\* "".join(char for char in section_name if char.isalnum())
RECURSIVE DirName(_)
DirName(s) ==
    IF s = << >> THEN << >>
    ELSE IF Head(s) \in Alnum THEN <<Head(s)>> \o DirName(Tail(s))
    ELSE DirName(Tail(s))

\* os.makedirs('') raises FileNotFoundError; any other folder may or may not be creatable
MkdirOutcomes(dir_name) == IF dir_name = << >> THEN {"fail"} ELSE {"ok", "fail"}

FolderError(section_name) == [kind |-> "folder", section |-> section_name, title |-> ""]
MissionError(section_name, title) == [kind |-> "mission", section |-> section_name, title |-> title]
UnknownHeading == [kind |-> "unknown_heading", section |-> << >>, title |-> ""]
UnknownEntry(title) == [kind |-> "unknown", section |-> << >>, title |-> title]

\* what download_section returns when the folder cannot be created
FolderErrors_permission(section_name, mission_list) ==
    [i \in DOMAIN mission_list |-> MissionError(section_name, mission_list[i].title)]
FolderErrors(section_name, mission_list) == <<FolderError(section_name)>>

\* os.chdir(original_dir) at the end of download_section
ChdirBack_skipped(original, current) == current
ChdirBack(original, current) == original

-----------------------------------------------------------------------------
(* __main__ helpers *)

\* if not section_name
UnknownSection_never(section_name) == FALSE
UnknownSection(section_name) == section_name = << >>

\* what the loop appends for a section without a name
UnknownErrors_noheading(mission_list) ==
    [i \in DOMAIN mission_list |-> UnknownEntry(mission_list[i].title)]
UnknownErrors(mission_list) ==
    <<UnknownHeading>> \o [i \in DOMAIN mission_list |-> UnknownEntry(mission_list[i].title)]

-----------------------------------------------------------------------------
(* write_solution_to_file *)

\* if not downloaded
Falsy_noneonly(d) == d.isNone
Falsy(d) == d.isNone \/ d.lines = << >>

\* datetime.now().strftime('%c'): the instant to the second
Strftime(i) == i.second

\* ['# "{}" downloaded: {}'.format(title, download_time)] extended by downloaded
Compose(title, download_time, lines) ==
    << <<"# \"", title, "\" downloaded: ", download_time>> >> \o lines

\* for line in code: print(line, file=f)
RECURSIVE PrintLines(_)
PrintLines(code) ==
    IF code = << >> THEN << >> ELSE Head(code) \o <<NL>> \o PrintLines(Tail(code))

\* str.splitlines(): a line break ends a line; a last line without one counts if not empty
RECURSIVE SplitFrom(_, _, _)
SplitFrom(text, cur, acc) ==
    IF text = << >> THEN (IF cur = << >> THEN acc ELSE Append(acc, cur))
    ELSE IF Head(text) = NL THEN SplitFrom(Tail(text), << >>, Append(acc, cur))
    ELSE SplitFrom(Tail(text), Append(cur, Head(text)), acc)

SplitLines(text) == SplitFrom(text, << >>, << >>)

\* f.read().splitlines() == code
SameContent_bodyonly(text, code) == Tail(SplitLines(text)) = Tail(code)
SameContent(text, code) == SplitLines(text) = code

FilePath(dir, mission) == [dir |-> dir, name |-> <<mission.url_name, ".py">>]

Remove(f, p) == [q \in DOMAIN f \ {p} |-> f[q]]

-----------------------------------------------------------------------------
(* State after construction: the script starts in the directory it was run in *)

Init ==
    /\ pc = "start"
    /\ exitStatus = "running"
    /\ cwd = << >>
    /\ dirs = {}
    /\ files = << >>
    /\ page = << >>
    /\ parseFailed = FALSE
    /\ missions = << >>
    /\ errors = << >>
    /\ si = 1
    /\ mi = 1
    /\ original_dir = << >>
    /\ attempts = 0
    /\ reads = << >>
    /\ slept = 0
    /\ downloaded = None
    /\ lastCall = NoCall
    /\ folderFailed = {}
    /\ called = {}
    /\ returned = {}

Exit(msgStatus) ==
    /\ pc' = "exit"
    /\ exitStatus' = msgStatus

\* __main__: if args.dest_dir: create_and_switch_to_dir or sys.exit(...)
Main_DestDir ==
    /\ pc = "start"
    /\ \E given \in BOOLEAN, ok \in BOOLEAN :
         IF given /\ ~ok THEN Exit("nonzero")
         ELSE pc' = "login" /\ UNCHANGED exitStatus
    /\ UNCHANGED <<cwd, dirs, files, page, parseFailed, missions, errors, si, mi,
                   original_dir, attempts, reads, slept, downloaded, lastCall,
                   folderFailed, called, returned>>

\* __main__: get_browser, get_username; sys.exit(...) if not username
Main_Login ==
    /\ pc = "login"
    /\ \E username \in {"", "user"} :
         IF username = "" THEN Exit("nonzero")
         ELSE pc' = "enumerate" /\ UNCHANGED exitStatus
    /\ UNCHANGED <<cwd, dirs, files, page, parseFailed, missions, errors, si, mi,
                   original_dir, attempts, reads, slept, downloaded, lastCall,
                   folderFailed, called, returned>>

\* __main__: missions = get_missions(browser, username); errors = []
Main_GetMissions ==
    /\ pc = "enumerate"
    /\ \E p \in Pages, missing \in BOOLEAN :
         \* NoSuchElementException needs a section to look into: its header,
         \* or the img or a of one of its missions, is not there
         LET failed == missing /\ p # << >>
         IN /\ page' = p
            /\ parseFailed' = failed
            /\ missions' = GetMissionsResult(p, failed)
    /\ errors' = << >>
    /\ si' = 1
    /\ pc' = "sections"
    /\ UNCHANGED <<exitStatus, cwd, dirs, files, mi, original_dir, attempts, reads,
                   slept, downloaded, lastCall, folderFailed, called, returned>>

\* __main__ loop body, section without a name
Main_UnknownSection ==
    /\ pc = "sections"
    /\ si <= Len(missions)
    /\ UnknownSection(missions[si].name)
    /\ errors' = errors \o UnknownErrors(missions[si].tasks)
    /\ si' = si + 1
    /\ UNCHANGED <<pc, exitStatus, cwd, dirs, files, page, parseFailed, missions, mi,
                   original_dir, attempts, reads, slept, downloaded, lastCall,
                   folderFailed, called, returned>>

\* download_section up to the mission loop: create the folder and enter it, or
\* return the folder error, which __main__ adds to errors
DownloadSection_Enter ==
    /\ pc = "sections"
    /\ si <= Len(missions)
    /\ ~UnknownSection(missions[si].name)
    /\ original_dir' = cwd
    /\ LET section_name == missions[si].name
           dir_name == DirName(section_name)
       IN \E outcome \in MkdirOutcomes(dir_name) :
            IF outcome = "ok"
            THEN /\ dirs' = dirs \cup {Append(cwd, dir_name)}
                 /\ cwd' = Append(cwd, dir_name)
                 /\ mi' = 1
                 /\ pc' = "mission"
                 /\ UNCHANGED <<errors, si, folderFailed>>
            ELSE /\ errors' = errors \o FolderErrors(section_name, missions[si].tasks)
                 /\ folderFailed' = folderFailed \cup {section_name}
                 /\ si' = si + 1
                 /\ UNCHANGED <<dirs, cwd, mi, pc>>
    /\ UNCHANGED <<exitStatus, files, page, parseFailed, missions, attempts, reads,
                   slept, downloaded, lastCall, called, returned>>

\* download_section loop head: write_solution_to_file calls get_solution,
\* which loads the solution page and sets attempts = 0
DownloadSection_NextMission ==
    /\ pc = "mission"
    /\ mi <= Len(missions[si].tasks)
    /\ attempts' = 0
    /\ reads' = << >>
    /\ slept' = 0
    /\ downloaded' = None
    /\ lastCall' = NoCall
    /\ called' = called \cup {<<missions[si].name, mi>>}
    /\ pc' = "fetch"
    /\ UNCHANGED <<exitStatus, cwd, dirs, files, page, parseFailed, missions, errors,
                   si, mi, original_dir, folderFailed, returned>>

\* get_solution: one pass of the while loop
GetSolution_Read ==
    /\ pc = "fetch"
    /\ LoopCond(attempts)
    /\ attempts' = attempts + 1
    /\ \E r \in {Stale} \cup {Lines(l) : l \in LineLists} :
         /\ reads' = Append(reads, r)
         /\ IF r.stale
            THEN slept' = slept + RETRY_DELAY_SECS /\ UNCHANGED downloaded
            ELSE downloaded' = List(r.lines) /\ UNCHANGED slept
         /\ pc' = AfterRead(r)
    /\ UNCHANGED <<exitStatus, cwd, dirs, files, page, parseFailed, missions, errors,
                   si, mi, original_dir, lastCall, folderFailed, called, returned>>

\* get_solution: the loop ended without a return: return None
GetSolution_GiveUp ==
    /\ pc = "fetch"
    /\ ~LoopCond(attempts)
    /\ downloaded' = None
    /\ pc' = "write"
    /\ UNCHANGED <<exitStatus, cwd, dirs, files, page, parseFailed, missions, errors,
                   si, mi, original_dir, attempts, reads, slept, lastCall,
                   folderFailed, called, returned>>

\* write_solution_to_file after get_solution returned, and download_section's
\* except IOError around it
WriteSolutionToFile ==
    /\ pc = "write"
    /\ LET section_name == missions[si].name
           mission == missions[si].tasks[mi]
           filename == FilePath(cwd, mission)
           failed == errors' = Append(errors, MissionError(section_name, mission.title))
       IN IF Falsy(downloaded)
          THEN /\ failed
               /\ lastCall' = [called |-> TRUE, path |-> filename, fetched |-> FALSE]
               /\ UNCHANGED <<files, returned>>
          ELSE \E now \in Instants, readable \in BOOLEAN, writable \in BOOLEAN :
                 LET code == Compose(mission.title, Strftime(now), downloaded.lines)
                     existed == filename \in DOMAIN files
                     before == IF existed THEN files[filename] ELSE << >>
                     same == existed /\ readable /\ SameContent(before, code)
                     call == [called |-> TRUE, path |-> filename, fetched |-> TRUE,
                              title |-> mission.title,
                              time |-> Strftime(now), lines |-> downloaded.lines,
                              existed |-> existed, readable |-> existed /\ readable,
                              before |-> before, touched |-> ~same,
                              raised |-> ~same /\ ~writable]
                     done == returned' = returned \cup
                               {[section |-> section_name, index |-> mi,
                                 time |-> Strftime(now), lines |-> downloaded.lines]}
                 IN /\ lastCall' = call
                    /\ IF same THEN done /\ UNCHANGED <<files, errors>>
                       ELSE IF writable
                       THEN /\ files' = (filename :> PrintLines(code)) @@ files
                            /\ done
                            /\ UNCHANGED errors
                       ELSE /\ files' = Remove(files, filename)
                            /\ failed
                            /\ UNCHANGED returned
    /\ mi' = mi + 1
    /\ pc' = "mission"
    /\ UNCHANGED <<exitStatus, cwd, dirs, page, parseFailed, missions, si,
                   original_dir, attempts, reads, slept, downloaded, folderFailed, called>>

\* download_section after the loop: chdir back, return errors (already added)
DownloadSection_Leave ==
    /\ pc = "mission"
    /\ mi > Len(missions[si].tasks)
    /\ cwd' = ChdirBack(original_dir, cwd)
    /\ si' = si + 1
    /\ pc' = "sections"
    /\ lastCall' = NoCall
    /\ UNCHANGED <<exitStatus, dirs, files, page, parseFailed, missions, errors, mi,
                   original_dir, attempts, reads, slept, downloaded,
                   folderFailed, called, returned>>

\* __main__ after the loop: "Download complete." and the list of errors
Main_Report ==
    /\ pc = "sections"
    /\ si > Len(missions)
    /\ pc' = "done"
    /\ exitStatus' = "zero"
    /\ UNCHANGED <<cwd, dirs, files, page, parseFailed, missions, errors, si, mi,
                   original_dir, attempts, reads, slept, downloaded, lastCall,
                   folderFailed, called, returned>>

Next ==
    \/ Main_DestDir
    \/ Main_Login
    \/ Main_GetMissions
    \/ Main_UnknownSection
    \/ DownloadSection_Enter
    \/ DownloadSection_NextMission
    \/ GetSolution_Read
    \/ GetSolution_GiveUp
    \/ WriteSolutionToFile
    \/ DownloadSection_Leave
    \/ Main_Report

Spec == Init /\ [][Next]_vars

\* the script is one sequential process: a step that can be taken is taken
FairSpec == Spec /\ WF_vars(Next)

-----------------------------------------------------------------------------
(* Properties *)

AllStale(rs) == \A i \in DOMAIN rs : rs[i].stale

\* the loop of __main__ has finished with item j of missions.items()
Processed(j) == j \in DOMAIN missions /\ (j < si \/ pc = "done")

\* the entries of errors that reference the named section
ErrorsReferencing(name) == { i \in DOMAIN errors : errors[i].section = name }

\* the entries of errors that mark a title as belonging to the unknown section
UnknownEntriesFor(title) ==
    { i \in DOMAIN errors : errors[i].kind = "unknown" /\ errors[i].title = title }

\* C1: when every read of the line elements raised the stale condition,
\* get_solution has made exactly 4 reads when it returns, and it returns None
\* to its caller; it never makes a fifth read.
C1_ExhaustionReturnsNone ==
    /\ (pc = "write" /\ AllStale(reads)) =>
           (downloaded = None /\ Len(reads) = 4 /\ attempts = 4)
    /\ pc = "fetch" => Len(reads) <= 4

C1_Witness == pc = "write" /\ AllStale(reads) /\ Len(reads) = 4 /\ downloaded.isNone

\* C2: when the first k reads (k in 0..3) raised the stale condition and read
\* k+1 succeeded, get_solution returns the lines of that read after exactly
\* k+1 reads: no read follows a successful one.
C2_FirstSuccessReturns ==
    /\ pc = "fetch" => AllStale(reads)
    /\ (pc = "write" /\ ~AllStale(reads)) =>
           LET n == Len(reads)
           IN /\ n \in 1..4
              /\ \A i \in 1..(n - 1) : reads[i].stale
              /\ ~reads[n].stale
              /\ downloaded = List(reads[n].lines)
              /\ attempts = n

C2_Witness ==
    /\ pc = "write"
    /\ Len(reads) = 4
    /\ \A i \in 1..3 : reads[i].stale
    /\ ~reads[4].stale
    /\ downloaded = List(<< <<"a=1">>, <<"b=2">>, << >> >>)

\* C3: when get_missions gave the empty mapping after a parse failure, the run
\* never reaches the completion report.
C3_ParseFailureIsFatal == parseFailed => pc # "done"

\* C4: a named section whose folder could not be created has none of its
\* missions fetched or written and exactly one entry of errors references it;
\* every named section whose folder was entered has had all its missions
\* attempted when the run ends.
C4_FolderFailureIsolated ==
    /\ \A j \in DOMAIN missions :
         (Processed(j) /\ missions[j].name \in folderFailed) =>
             /\ \A m \in DOMAIN missions[j].tasks : <<missions[j].name, m>> \notin called
             /\ \A f \in DOMAIN files : f.dir # <<DirName(missions[j].name)>>
             /\ Cardinality(ErrorsReferencing(missions[j].name)) = 1
    /\ pc = "done" =>
         \A j \in DOMAIN missions :
           (missions[j].name # << >> /\ missions[j].name \notin folderFailed) =>
               /\ <<DirName(missions[j].name)>> \in dirs
               /\ \A m \in DOMAIN missions[j].tasks : <<missions[j].name, m>> \in called

C4_Witness ==
    /\ pc = "done"
    /\ Len(missions) = 2
    /\ missions[1].name \in folderFailed
    /\ missions[1].tasks # << >>
    /\ missions[2].name \notin folderFailed
    /\ <<missions[2].name, 1>> \in called
    /\ \E r \in returned : r.section = missions[2].name

\* C5: in a named section whose folder was entered, a mission whose fetch gave
\* None or no lines, or whose write failed, adds exactly one entry naming the
\* section and the mission's title; a mission that succeeds adds none; either
\* way the loop goes on to the next mission, and the run reaches the report.
C5_MissionFailureRecorded ==
    /\ [][pc = "write" =>
            LET e == MissionError(missions[si].name, missions[si].tasks[mi].title)
                exhausted == downloaded.isNone \/ downloaded.lines = << >>
            IN /\ pc' = "mission" /\ mi' = mi + 1 /\ si' = si
               /\ IF exhausted \/ lastCall'.raised
                  THEN errors' = Append(errors, e)
                  ELSE errors' = errors]_vars
    /\ (pc = "write") ~> (pc = "done")

C5_Witness ==
    /\ pc = "done"
    /\ Len(missions) = 1
    /\ Len(missions[1].tasks) = 2
    /\ errors = <<MissionError(missions[1].name, missions[1].tasks[1].title)>>
    /\ \E r \in returned : r.index = 2

\* C6: for every mission of the section without a name, write_solution_to_file
\* is never called, no folder or file is made for the section, and errors holds
\* one unknown-section entry with its title per occurrence in the section.
C6_UnknownSectionReported ==
    \A j \in DOMAIN missions :
      (Processed(j) /\ missions[j].name = << >>) =>
          /\ << << >> >> \notin dirs
          /\ \A f \in DOMAIN files : f.dir \notin { << >>, << << >> >> }
          /\ \A m \in DOMAIN missions[j].tasks :
               /\ << << >>, m>> \notin called
               /\ Cardinality(UnknownEntriesFor(missions[j].tasks[m].title))
                    = Cardinality({ n \in DOMAIN missions[j].tasks :
                                      missions[j].tasks[n].title = missions[j].tasks[m].title })

C6_Witness ==
    /\ pc = "done"
    /\ \E j \in DOMAIN missions :
         /\ missions[j].name = << >>
         /\ Len(missions[j].tasks) = 2
         /\ missions[j].tasks[1] # missions[j].tasks[2]
         /\ Cardinality(UnknownEntriesFor("Mystery")) = 1

\* the run of C7: one named section with one mission, fetched and written, and
\* the section without a name with one mission
C7_Scenario ==
    /\ pc = "done"
    /\ missions = << [name |-> <<"Home">>, tasks |-> <<[title |-> "Add", url_name |-> "add"]>>],
                     [name |-> << >>, tasks |-> <<[title |-> "Mystery", url_name |-> "myst"]>>] >>
    /\ \E r \in returned : r.section = <<"Home">> /\ r.index = 1

C7_FileWritten ==
    \A r \in returned :
      LET f == FilePath(<< <<"Home">> >>, [title |-> "Add", url_name |-> "add"])
      IN /\ f \in DOMAIN files
         /\ SplitLines(files[f]) = Compose("Add", r.time, r.lines)

\* C7 as stated: in that run the file holds the header and the fetched lines
\* and errors has exactly one entry, the one for the unknown-section mission.
C7_Original ==
    C7_Scenario => (C7_FileWritten /\ errors = <<UnknownEntry("Mystery")>>)

\* C7 as amended: in that run the file holds the header and the fetched lines
\* and errors has exactly two entries, the "Unknown section containing:"
\* heading followed by the one for the unknown-section mission.
C7_EndToEnd ==
    C7_Scenario => (C7_FileWritten /\ errors = <<UnknownHeading, UnknownEntry("Mystery")>>)

C7_Witness == C7_Scenario /\ Len(errors) = 2

\* what a call that fetched lines composed
CallCode(c) == Compose(c.title, c.time, c.lines)

\* C8: a call of write_solution_to_file that fetched lines writes the file
\* exactly when no readable file is there or its lines differ from the composed
\* ones, header included: over the file an earlier write of the same lines with
\* the same header timestamp left, the call changes nothing and raises nothing;
\* over the file an earlier write of the same lines with another header
\* timestamp left, the call writes again.
C8_WriteOnlyIfDifferent ==
    (lastCall.called /\ lastCall.fetched) =>
        /\ lastCall.touched <=>
             ~(lastCall.readable /\ SplitLines(lastCall.before) = CallCode(lastCall))
        /\ (lastCall.readable /\ lastCall.before = PrintLines(CallCode(lastCall))) =>
             /\ ~lastCall.touched
             /\ ~lastCall.raised
             /\ files[lastCall.path] = lastCall.before
        /\ \A i \in Instants :
             (/\ Strftime(i) # lastCall.time
              /\ lastCall.readable
              /\ lastCall.before = PrintLines(Compose(lastCall.title, Strftime(i), lastCall.lines)))
             => lastCall.touched
        /\ (lastCall.touched /\ ~lastCall.raised) =>
             files[lastCall.path] = PrintLines(CallCode(lastCall))

C8_Witness ==
    /\ lastCall.called
    /\ lastCall.fetched
    /\ lastCall.readable
    /\ lastCall.before = PrintLines(CallCode(lastCall))
    /\ ~lastCall.touched
    /\ Cardinality(returned) = 2

\* C9: whenever the loop of __main__ is between two sections, or past the last,
\* the working directory is the one the loop started in, whatever happened in
\* the sections before; so every folder made is a child of that directory.
C9_WorkingDirRestored ==
    /\ pc \in {"sections", "done"} => cwd = << >>
    /\ \A d \in dirs : Len(d) = 1

C9_Witness ==
    /\ pc = "done"
    /\ folderFailed # {}
    /\ \E i \in DOMAIN errors : errors[i].kind = "mission"
    /\ returned # {}
    /\ Cardinality(dirs) = 1

\* C10: when the listing page parsed without error, every mission rendered in
\* a section is in the mapping under that section's header.
C10_EveryMissionListed ==
    (pc \in {"sections", "mission", "fetch", "write", "done"} /\ ~parseFailed) =>
        \A s \in DOMAIN page : \A t \in DOMAIN page[s].tasks :
            \E j \in DOMAIN missions :
                /\ missions[j].name = page[s].header
                /\ \E m \in DOMAIN missions[j].tasks :
                       missions[j].tasks[m] = Mission(page[s].tasks[t])

====
